---------------------------- MODULE Spec2Model ----------------------------
(***************************************************************************)
(* Model of the validation / sanitization gateway of mongodb_mcp:          *)
(*   security/validator.py   QueryValidator, AggregationValidator          *)
(*   security/sanitizer.py   InputSanitizer                                *)
(*   handlers/document.py    DocumentHandler                               *)
(*   handlers/aggregation.py AggregationHandler                            *)
(*   handlers/database.py    DatabaseHandler                               *)
(*   handlers/collection.py  CollectionHandler                             *)
(*   server.py               FastMCP tools, ensure_server_initialized      *)
(*   mcp_server.py           MCPServer.handle_tool_call, MCPServer.run     *)
(*   simple_server.py        SimpleMCPServer.call_tool                     *)
(*                                                                         *)
(* Untrusted JSON values are tagged records:                               *)
(*   [t |-> "str",  v |-> <<code points>>]                                 *)
(*   [t |-> "int",  v |-> n]                                               *)
(*   [t |-> "oid",  v |-> n]          a bson ObjectId                      *)
(*   [t |-> "none", v |-> 0]          Python None                          *)
(*   [t |-> "dict", v |-> << <<key, value>>, ... >>]  insertion ordered    *)
(*   [t |-> "list", v |-> << value, ... >>]                                *)
(* A Python str is the sequence of its code points, so that str.strip,     *)
(* re.sub and str.startswith are computed character by character.          *)
(***************************************************************************)
EXTENDS Integers, Sequences, FiniteSets, TLC

VARIABLES
    allow_dangerous,   \* DocumentHandler / AggregationHandler .allow_dangerous
    op,                \* the operation called, "idle" between two calls
    args,              \* the arguments of the call
    events,            \* validator, sanitizer and store calls of the call, in order
    result,            \* what the call returned or raised
    server_instance,   \* server.py: the global, "None" or "MongoDBMCPServer"
    db_handler,        \* server.py: server_instance's handlers, "None" until setup assigns them
    setups,            \* server.py: how many times setup ran to completion
    task,              \* server.py: where each concurrent tool call stands
    self_initialized,  \* mcp_server.py: MCPServer.initialized
    req_id,            \* mcp_server.py: the local req_id of run, unbound at first
    stdin_read,        \* mcp_server.py: the lines run has read
    stdout,            \* mcp_server.py: the messages run has written
    loop               \* mcp_server.py: "running", or how run ended

handlerVars == <<allow_dangerous, op, args, events, result>>

serverVars == <<server_instance, db_handler, setups, task>>

loopVars == <<self_initialized, req_id, stdin_read, stdout, loop>>

vars == <<allow_dangerous, op, args, events, result,
          server_instance, db_handler, setups, task,
          self_initialized, req_id, stdin_read, stdout, loop>>

---------------------------------------------------------------------------
(* Values *)

Str(s) == [t |-> "str", v |-> s]

Num(n) == [t |-> "int", v |-> n]

Oid(n) == [t |-> "oid", v |-> n]

None == [t |-> "none", v |-> 0]

Dict(entries) == [t |-> "dict", v |-> entries]

List(items) == [t |-> "list", v |-> items]

EmptyDict == Dict(<<>>)

isinstance(x, type) == x.t = type

\* d[key] = value on an insertion-ordered dict with unique keys: an existing
\* key keeps its position and takes the new value, a new key is appended.
DictSet(entries, key, value) ==
    IF \E i \in 1..Len(entries) : entries[i][1] = key
    THEN [i \in 1..Len(entries) |->
            IF entries[i][1] = key THEN <<key, value>> ELSE entries[i]]
    ELSE Append(entries, <<key, value>>)

\* key in d
HasKey(d, key) == \E i \in 1..Len(d.v) : d.v[i][1] = key

\* A local variable: Body with the value bound to its parameter.
With(value, Body(_)) == Body(value)

---------------------------------------------------------------------------
(* Operator and stage names, as code points *)

S_gt == <<36, 103, 116>>                         \* "$gt"

S_or == <<36, 111, 114>>                         \* "$or"

S_in == <<36, 105, 110>>                         \* "$in"

S_where == <<36, 119, 104, 101, 114, 101>>       \* "$where"

S_expr == <<36, 101, 120, 112, 114>>             \* "$expr"

S_match == <<36, 109, 97, 116, 99, 104>>         \* "$match"

S_sort == <<36, 115, 111, 114, 116>>             \* "$sort"

S_limit == <<36, 108, 105, 109, 105, 116>>       \* "$limit"

S_skip == <<36, 115, 107, 105, 112>>             \* "$skip"

S_facet == <<36, 102, 97, 99, 101, 116>>         \* "$facet"

S_out == <<36, 111, 117, 116>>                   \* "$out"

S_merge == <<36, 109, 101, 114, 103, 101>>       \* "$merge"

S_explain == <<36, 101, 120, 112, 108, 97, 105, 110>>   \* "$explain"

S_verbosity == <<118, 101, 114, 98, 111, 115, 105, 116, 121>>   \* "verbosity"

S_executionStats ==                              \* "executionStats"
    <<101, 120, 101, 99, 117, 116, 105, 111, 110, 83, 116, 97, 116, 115>>

S_id == <<95, 105, 100>>                         \* "_id"

S_name == <<110, 97, 109, 101>>                  \* "name"

S_bob == <<32, 98, 111, 98, 32>>                 \* " bob "

S_a == <<97>>                                    \* "a"

SAFE_QUERY_OPERATORS ==
    { <<36, 101, 113>>,                               \* "$eq"
      <<36, 110, 101>>,                               \* "$ne"
      S_gt,                                           \* "$gt"
      <<36, 103, 116, 101>>,                          \* "$gte"
      <<36, 108, 116>>,                               \* "$lt"
      <<36, 108, 116, 101>>,                          \* "$lte"
      S_in,                                           \* "$in"
      <<36, 110, 105, 110>>,                          \* "$nin"
      <<36, 101, 120, 105, 115, 116, 115>>,           \* "$exists"
      <<36, 116, 121, 112, 101>>,                     \* "$type"
      <<36, 114, 101, 103, 101, 120>>,                \* "$regex"
      <<36, 97, 110, 100>>,                           \* "$and"
      S_or,                                           \* "$or"
      <<36, 110, 111, 116>>,                          \* "$not"
      <<36, 110, 111, 114>>,                          \* "$nor"
      <<36, 115, 105, 122, 101>>,                     \* "$size"
      <<36, 101, 108, 101, 109, 77, 97, 116, 99, 104>>,  \* "$elemMatch"
      <<36, 97, 108, 108>> }                          \* "$all"

DANGEROUS_OPERATORS ==
    { S_where,                                        \* "$where"
      S_expr,                                         \* "$expr"
      <<36, 106, 115, 111, 110, 83, 99, 104, 101, 109, 97>>,  \* "$jsonSchema"
      <<36, 116, 101, 120, 116>> }                    \* "$text"

SAFE_STAGES ==
    { S_match,                                        \* "$match"
      <<36, 112, 114, 111, 106, 101, 99, 116>>,       \* "$project"
      S_sort,                                         \* "$sort"
      S_limit,                                        \* "$limit"
      S_skip,                                         \* "$skip"
      <<36, 103, 114, 111, 117, 112>>,                \* "$group"
      <<36, 117, 110, 119, 105, 110, 100>>,           \* "$unwind"
      <<36, 108, 111, 111, 107, 117, 112>>,           \* "$lookup"
      <<36, 97, 100, 100, 70, 105, 101, 108, 100, 115>>,  \* "$addFields"
      <<36, 99, 111, 117, 110, 116>>,                 \* "$count"
      S_facet,                                        \* "$facet"
      <<36, 98, 117, 99, 107, 101, 116>>,             \* "$bucket"
      <<36, 115, 97, 109, 112, 108, 101>> }           \* "$sample"

DANGEROUS_STAGES ==
    { S_out,                                          \* "$out"
      S_merge,                                        \* "$merge"
      <<36, 103, 101, 111, 78, 101, 97, 114>>,        \* "$geoNear"
      <<36, 103, 114, 97, 112, 104, 76, 111, 111, 107, 117, 112>>,  \* "$graphLookup"
      <<36, 102, 117, 110, 99, 116, 105, 111, 110>>,  \* "$function"
      <<36, 97, 99, 99, 117, 109, 117, 108, 97, 116, 111, 114>>,  \* "$accumulator"
      S_expr }                                        \* "$expr"

\* key.startswith("$")
StartsWithDollar(key) == Len(key) >= 1 /\ key[1] = 36

---------------------------------------------------------------------------
(* security/validator.py *)

\* The outcome of a validator: no exception, or the ValueError it raises.
\* what: "dangerous" | "unknown" | "too_long" | "not_dict" | "not_one_key";
\* name: the operator or stage name the message carries (<<>> if none);
\* index: the stage index the message carries (-1 if none).
Accept == [ok |-> TRUE, what |-> "", name |-> <<>>, index |-> -1]

Reject(what, name, index) ==
    [ok |-> FALSE, what |-> what, name |-> name, index |-> index]

\* QueryValidator._validate_dict, lines 32-36: the check of one key.
CheckOperatorKey(key, allow) ==
    IF StartsWithDollar(key)
    THEN IF key \in DANGEROUS_OPERATORS /\ ~allow
         THEN Reject("dangerous", key, -1)
         ELSE IF key \notin SAFE_QUERY_OPERATORS /\ key \notin DANGEROUS_OPERATORS
              THEN Reject("unknown", key, -1)
              ELSE Accept
    ELSE Accept

RECURSIVE ValidateEntriesFrom(_, _, _)
RECURSIVE ValidateItemsFrom(_, _, _)

\* QueryValidator._validate_dict, lines 38-43: the visit of one value.
\* A list is searched for dict items only; a list inside a list is skipped.
ValidateValue(value, allow) ==
    IF isinstance(value, "dict") THEN ValidateEntriesFrom(value.v, 1, allow)
    ELSE IF isinstance(value, "list") THEN ValidateItemsFrom(value.v, 1, allow)
    ELSE Accept

\* The loop "for key, value in obj.items()" from entry i on; the first
\* exception raised ends it.
ValidateEntriesFrom(entries, i, allow) ==
    IF i > Len(entries) THEN Accept
    ELSE With(CheckOperatorKey(entries[i][1], allow), LAMBDA k :
            IF ~k.ok THEN k
            ELSE With(ValidateValue(entries[i][2], allow), LAMBDA v :
                    IF ~v.ok THEN v
                    ELSE ValidateEntriesFrom(entries, i + 1, allow)))

\* The loop "for item in value" from item i on.
ValidateItemsFrom(items, i, allow) ==
    IF i > Len(items) THEN Accept
    ELSE With(IF isinstance(items[i], "dict")
              THEN ValidateEntriesFrom(items[i].v, 1, allow)
              ELSE Accept, LAMBDA r :
            IF ~r.ok THEN r ELSE ValidateItemsFrom(items, i + 1, allow))

_validate_dict(obj, allow) == ValidateEntriesFrom(obj.v, 1, allow)

validate_query(query, allow) == _validate_dict(query, allow)

\* ValidateStage without the closed allowlist: a stage name in neither
\* list passes.
ValidateStage_UnknownPasses(stage, i, allow) ==
    IF ~isinstance(stage, "dict") THEN Reject("not_dict", <<>>, i)
    ELSE IF Len(stage.v) # 1 THEN Reject("not_one_key", <<>>, i)
    ELSE LET stage_name == stage.v[1][1]
         IN  IF stage_name \in DANGEROUS_STAGES /\ ~allow
             THEN Reject("dangerous", stage_name, -1)
             ELSE Accept

\* ValidateStage testing only that the stage is not empty: the first key
\* of a stage with several keys is the one classified.
ValidateStage_FirstKeyOnly(stage, i, allow) ==
    IF ~isinstance(stage, "dict") THEN Reject("not_dict", <<>>, i)
    ELSE IF Len(stage.v) < 1 THEN Reject("not_one_key", <<>>, i)
    ELSE LET stage_name == stage.v[1][1]
         IN  IF stage_name \in DANGEROUS_STAGES /\ ~allow
             THEN Reject("dangerous", stage_name, -1)
             ELSE IF stage_name \notin SAFE_STAGES /\ stage_name \notin DANGEROUS_STAGES
                  THEN Reject("unknown", stage_name, -1)
                  ELSE Accept

\* AggregationValidator.validate_pipeline, lines 74-85: one stage.
ValidateStage(stage, i, allow) ==
    IF ~isinstance(stage, "dict") THEN Reject("not_dict", <<>>, i)
    ELSE IF Len(stage.v) # 1 THEN Reject("not_one_key", <<>>, i)
    ELSE LET stage_name == stage.v[1][1]
         IN  IF stage_name \in DANGEROUS_STAGES /\ ~allow
             THEN Reject("dangerous", stage_name, -1)
             ELSE IF stage_name \notin SAFE_STAGES /\ stage_name \notin DANGEROUS_STAGES
                  THEN Reject("unknown", stage_name, -1)
                  ELSE Accept

RECURSIVE ValidateStagesFrom(_, _, _)
\* The loop "for i, stage in enumerate(pipeline)"; i is 1-based here, the
\* index reported is the 0-based i - 1.
ValidateStagesFrom(pipeline, i, allow) ==
    IF i > Len(pipeline) THEN Accept
    ELSE With(ValidateStage(pipeline[i], i - 1, allow), LAMBDA r :
            IF ~r.ok THEN r ELSE ValidateStagesFrom(pipeline, i + 1, allow))

\* validate_pipeline with the length test off by one (>= for >).
validate_pipeline_OffByOne(pipeline, allow, max_stages) ==
    IF Len(pipeline) >= max_stages THEN Reject("too_long", <<>>, -1)
    ELSE ValidateStagesFrom(pipeline, 1, allow)

validate_pipeline(pipeline, allow, max_stages) ==
    IF Len(pipeline) > max_stages THEN Reject("too_long", <<>>, -1)
    ELSE ValidateStagesFrom(pipeline, 1, allow)

---------------------------------------------------------------------------
(* security/sanitizer.py *)

MAX_STRING_LENGTH == 1000

MAX_QUERY_DEPTH == 10

MAX_DOCUMENT_SIZE == 16 * 1024 * 1024

\* The character class [\x00-\x08\x0B\x0C\x0E-\x1F\x7F] of sanitize_string.
IsControl(c) == c \in 0..8 \/ c \in {11, 12} \/ c \in 14..31 \/ c = 127

\* The characters str.strip() removes: those for which str.isspace() holds.
IsSpace(c) ==
    \/ c \in 9..13
    \/ c \in 28..32
    \/ c \in {133, 160, 5760, 8232, 8233, 8239, 8287, 12288}
    \/ c \in 8192..8202

\* re.sub(r'[\x00-\x08\x0B\x0C\x0E-\x1F\x7F]', '', value)
RemoveControl(s) == SelectSeq(s, LAMBDA c : ~IsControl(c))

\* str.strip()
Strip(s) ==
    LET keep == {i \in 1..Len(s) : ~IsSpace(s[i])}
    IN  IF keep = {} THEN <<>>
        ELSE LET first == CHOOSE i \in keep : \A j \in keep : i <= j
                 last == CHOOSE i \in keep : \A j \in keep : j <= i
             IN  SubSeq(s, first, last)

\* The outcome of a sanitizer: the value returned, or the ValueError raised.
\* err: "not_string" | "string_too_long" | "depth" | "size".
Ok(val) == [ok |-> TRUE, val |-> val, err |-> ""]

Fail(err) == [ok |-> FALSE, val |-> None, err |-> err]

\* sanitize_string trimming before it removes the control characters.
sanitize_string_StripFirst(value) ==
    IF ~isinstance(value, "str") THEN Fail("not_string")
    ELSE IF Len(value.v) > MAX_STRING_LENGTH THEN Fail("string_too_long")
    ELSE Ok(RemoveControl(Strip(value.v)))

\* sanitize_string measuring the length of the cleaned string.
sanitize_string_LengthAfterStrip(value) ==
    IF ~isinstance(value, "str") THEN Fail("not_string")
    ELSE IF Len(Strip(RemoveControl(value.v))) > MAX_STRING_LENGTH
         THEN Fail("string_too_long")
    ELSE Ok(Strip(RemoveControl(value.v)))

\* InputSanitizer.sanitize_string on a value of any type; a str result is
\* returned as its code points.
sanitize_string(value) ==
    IF ~isinstance(value, "str") THEN Fail("not_string")
    ELSE IF Len(value.v) > MAX_STRING_LENGTH THEN Fail("string_too_long")
    ELSE Ok(Strip(RemoveControl(value.v)))

RECURSIVE _check_depth(_, _)
\* TRUE when InputSanitizer._check_depth returns, FALSE when it raises.
_check_depth(obj, current_depth) ==
    IF current_depth > MAX_QUERY_DEPTH THEN FALSE
    ELSE IF isinstance(obj, "dict")
         THEN \A i \in 1..Len(obj.v) : _check_depth(obj.v[i][2], current_depth + 1)
    ELSE IF isinstance(obj, "list")
         THEN \A i \in 1..Len(obj.v) : _check_depth(obj.v[i], current_depth + 1)
    ELSE TRUE

\* The outcome of a sanitizer call on a structure: as Ok and Fail, with obj
\* the argument object as the call leaves it.
Done(val, obj) == [ok |-> TRUE, val |-> val, err |-> "", obj |-> obj]

Raised(err, obj) == [ok |-> FALSE, val |-> None, err |-> err, obj |-> obj]

RECURSIVE SanitizeEntriesFrom(_, _, _)
RECURSIVE SanitizeItemsFrom(_, _, _)

\* sanitize_string on a str value, its result a str value again.
SanitizeStr(value) ==
    With(sanitize_string(value), LAMBDA r :
        IF r.ok THEN Done(Str(r.val), value) ELSE Raised(r.err, value))

\* InputSanitizer._sanitize_dict, lines 68-80: the new value of one entry.
SanitizeValue(value) ==
    IF isinstance(value, "str") THEN SanitizeStr(value)
    ELSE IF isinstance(value, "dict") THEN SanitizeEntriesFrom(value.v, 1, <<>>)
    ELSE IF isinstance(value, "list") THEN SanitizeItemsFrom(value.v, 1, <<>>)
    ELSE Done(value, value)

\* The loop of _sanitize_dict assigning the cleaned entries to obj itself
\* (obj[clean_key] = ...) next to the dict it returns.
SanitizeEntriesFrom_InPlace(entries, i, sanitized) ==
    IF i > Len(entries) THEN Done(Dict(sanitized), Dict(entries))
    ELSE With(sanitize_string(Str(entries[i][1])), LAMBDA clean_key :
            IF ~clean_key.ok THEN Raised(clean_key.err, Dict(entries))
            ELSE With(SanitizeValue(entries[i][2]), LAMBDA v :
                    IF ~v.ok
                    THEN Raised(v.err, Dict([entries EXCEPT ![i] = <<entries[i][1], v.obj>>]))
                    ELSE SanitizeEntriesFrom(
                            [entries EXCEPT ![i] = <<clean_key.val, v.val>>], i + 1,
                            DictSet(sanitized, clean_key.val, v.val))))

\* The loop of _sanitize_dict leaving out the entries whose key is an
\* operator.
SanitizeEntriesFrom_SkipsOperators(entries, i, sanitized) ==
    IF i > Len(entries) THEN Done(Dict(sanitized), Dict(entries))
    ELSE With(sanitize_string(Str(entries[i][1])), LAMBDA clean_key :
            IF ~clean_key.ok THEN Raised(clean_key.err, Dict(entries))
            ELSE With(SanitizeValue(entries[i][2]), LAMBDA v :
                    IF ~v.ok
                    THEN Raised(v.err, Dict([entries EXCEPT ![i] = <<entries[i][1], v.obj>>]))
                    ELSE SanitizeEntriesFrom(
                            [entries EXCEPT ![i] = <<entries[i][1], v.obj>>], i + 1,
                            IF StartsWithDollar(clean_key.val) THEN sanitized
                            ELSE DictSet(sanitized, clean_key.val, v.val))))

\* The loop "for key, value in obj.items()" from entry i on, with the
\* dict `sanitized` built so far; entries are the items of obj. Keys arrive
\* from JSON and are str. Every assignment of the loop is to `sanitized`;
\* a value of obj is, after the nested call on it, what that call left.
SanitizeEntriesFrom(entries, i, sanitized) ==
    IF i > Len(entries) THEN Done(Dict(sanitized), Dict(entries))
    ELSE With(sanitize_string(Str(entries[i][1])), LAMBDA clean_key :
            IF ~clean_key.ok THEN Raised(clean_key.err, Dict(entries))
            ELSE With(SanitizeValue(entries[i][2]), LAMBDA v :
                    IF ~v.ok
                    THEN Raised(v.err, Dict([entries EXCEPT ![i] = <<entries[i][1], v.obj>>]))
                    ELSE SanitizeEntriesFrom(
                            [entries EXCEPT ![i] = <<entries[i][1], v.obj>>], i + 1,
                            DictSet(sanitized, clean_key.val, v.val))))

\* The list comprehension of lines 73-78 from item i on, building the new
\* list `done`: dict items are sanitized, str items cleaned, every other
\* item (a list too) is kept.
SanitizeItemsFrom(items, i, done) ==
    IF i > Len(items) THEN Done(List(done), List(items))
    ELSE With(IF isinstance(items[i], "dict")
              THEN SanitizeEntriesFrom(items[i].v, 1, <<>>)
              ELSE IF isinstance(items[i], "str") THEN SanitizeStr(items[i])
              ELSE Done(items[i], items[i]), LAMBDA r :
            IF ~r.ok THEN Raised(r.err, List([items EXCEPT ![i] = r.obj]))
            ELSE SanitizeItemsFrom([items EXCEPT ![i] = r.obj], i + 1,
                                   Append(done, r.val)))

_sanitize_dict(obj) == SanitizeEntriesFrom(obj.v, 1, <<>>)

sanitize_query(query) ==
    IF ~_check_depth(query, 0) THEN Raised("depth", query) ELSE _sanitize_dict(query)

RECURSIVE Digits(_)
\* The number of decimal digits of n >= 0.
Digits(n) == IF n < 10 THEN 1 ELSE 1 + Digits(n \div 10)

\* The length of one character inside a JSON string (ensure_ascii).
JsonCharLen(c) ==
    IF c \in {34, 92, 8, 9, 10, 12, 13} THEN 2
    ELSE IF c < 32 \/ c > 126 THEN (IF c > 65535 THEN 12 ELSE 6)
    ELSE 1

RECURSIVE SumJsonChars(_, _, _)
\* The length of the characters s[lo..hi] inside a JSON string.
SumJsonChars(s, lo, hi) ==
    IF lo > hi THEN 0
    ELSE IF lo = hi THEN JsonCharLen(s[lo])
    ELSE LET mid == (lo + hi) \div 2
         IN  SumJsonChars(s, lo, mid) + SumJsonChars(s, mid + 1, hi)

RECURSIVE JsonLen(_)
RECURSIVE JsonEntriesLen(_, _)
RECURSIVE JsonItemsLen(_, _)

\* len(json.dumps(x, default=str)): separators ", " and ": ", an ObjectId
\* written as the string of its 24 hexadecimal digits.
JsonLen(x) ==
    IF isinstance(x, "str") THEN 2 + SumJsonChars(x.v, 1, Len(x.v))
    ELSE IF isinstance(x, "int") THEN (IF x.v < 0 THEN 1 + Digits(-x.v) ELSE Digits(x.v))
    ELSE IF isinstance(x, "oid") THEN 26
    ELSE IF isinstance(x, "none") THEN 4
    ELSE IF isinstance(x, "dict")
         THEN 2 + JsonEntriesLen(x.v, 1) + (IF Len(x.v) > 1 THEN 2 * (Len(x.v) - 1) ELSE 0)
    ELSE 2 + JsonItemsLen(x.v, 1) + (IF Len(x.v) > 1 THEN 2 * (Len(x.v) - 1) ELSE 0)

JsonEntriesLen(entries, i) ==
    IF i > Len(entries) THEN 0
    ELSE 2 + SumJsonChars(entries[i][1], 1, Len(entries[i][1])) + 2 + JsonLen(entries[i][2])
         + JsonEntriesLen(entries, i + 1)

JsonItemsLen(items, i) ==
    IF i > Len(items) THEN 0 ELSE JsonLen(items[i]) + JsonItemsLen(items, i + 1)

sanitize_document(document) ==
    IF JsonLen(document) > MAX_DOCUMENT_SIZE THEN Raised("size", document)
    ELSE IF ~_check_depth(document, 0) THEN Raised("depth", document)
    ELSE _sanitize_dict(document)

---------------------------------------------------------------------------
(* The store (motor / pymongo collection), an external collaborator *)

\* A response of the store to one call: an OperationFailure, or the
\* documents it yields (find, find_one, aggregate) / counts (the others).
\* {_id: ObjectId, ref: ObjectId, a: {_id: ObjectId}, name: [ObjectId]}
StoreDoc ==
    Dict(<< <<S_id, Oid(1)>>,
            << <<114, 101, 102>>, Oid(2) >>,
            <<S_a, Dict(<< <<S_id, Oid(3)>> >>)>>,
            <<S_name, List(<< Oid(4) >>)>> >>)

\* The last response holds a document whose _id is not an ObjectId:
\* {name: " bob ", _id: 7}.
StoreResponses ==
    { [fail |-> TRUE, docs |-> <<>>],
      [fail |-> FALSE, docs |-> <<>>],
      [fail |-> FALSE, docs |-> <<StoreDoc>>],
      [fail |-> FALSE, docs |-> << Dict(<< <<S_name, Str(S_bob)>>, <<S_id, Num(7)>> >>) >>] }

\* str(ObjectId): 24 hexadecimal digits.
OidStr(n) == [i \in 1..24 |-> IF i = 24 THEN 48 + n ELSE 48]

\* NormalizeId converting every ObjectId field of the document.
NormalizeId_EveryField(doc) ==
    Dict([i \in 1..Len(doc.v) |->
            IF isinstance(doc.v[i][2], "oid")
            THEN <<doc.v[i][1], Str(OidStr(doc.v[i][2].v))>>
            ELSE doc.v[i]])

\* if '_id' in doc and isinstance(doc['_id'], ObjectId): doc['_id'] = str(doc['_id'])
NormalizeId(doc) ==
    Dict([i \in 1..Len(doc.v) |->
            IF doc.v[i][1] = S_id /\ isinstance(doc.v[i][2], "oid")
            THEN <<S_id, Str(OidStr(doc.v[i][2].v))>>
            ELSE doc.v[i]])

---------------------------------------------------------------------------
(* Calls a handler makes, and what a handler call ends with *)

\* named and index are the operator or stage name and the stage index that
\* the message of the ValueError raised holds (<<>> and -1 if it holds none).
ValidatorCall(name, arg, allow, r) ==
    [target |-> "validator", ev |-> name, arg |-> arg, allow |-> allow, ok |-> r.ok,
     named |-> r.name, index |-> r.index]

\* arg is the argument as passed, after the argument when the call ended.
SanitizerCall(name, arg, r) ==
    [target |-> "sanitizer", ev |-> name, arg |-> arg, ok |-> r.ok, after |-> r.obj]

\* returned is what the store yields: documents, names or a count's worth.
StoreCall(method, arg, resp) ==
    [target |-> "store", ev |-> method, arg |-> arg, ok |-> ~resp.fail,
     returned |-> resp.docs]

\* A normal return with its value.
Return(value) == [kind |-> "return", exc |-> "", cause |-> "", value |-> value]

\* An exception leaving the handler: exc is its Python type, cause what
\* its message carries (the validator / sanitizer error or the store's).
Raise(exc, cause) == [kind |-> "raise", exc |-> exc, cause |-> cause, value |-> None]

Outcome(evs, res) == [events |-> evs, result |-> res]

---------------------------------------------------------------------------
(* handlers/document.py *)

\* "if query is None: query = {}"
QueryOrEmpty(query) == IF isinstance(query, "none") THEN EmptyDict ELSE query

\* Lines 54-55 (and 104-105, 131-132, 181-182, 211-212): validate_query,
\* then sanitize_query. The calls made, whether both passed, the sanitized
\* query and the error of the one that failed.
CheckQuery(allow, q) ==
    With(validate_query(q, allow), LAMBDA v :
    With(<<ValidatorCall("validate_query", q, allow, v)>>, LAMBDA e1 :
        IF ~v.ok THEN [ok |-> FALSE, calls |-> e1, val |-> None, err |-> v.what]
        ELSE
    With(sanitize_query(q), LAMBDA s :
        [ok |-> s.ok, calls |-> Append(e1, SanitizerCall("sanitize_query", q, s)),
         val |-> s.val, err |-> s.err])))

\* find_documents reporting hasMore only when a limit was applied to the cursor.
find_documents_HasMoreWhenLimited(allow, query, projection, sort, limit, skip, resp) ==
    With(CheckQuery(allow, QueryOrEmpty(query)), LAMBDA c :
        IF ~c.ok THEN Outcome(c.calls, Raise("RuntimeError", c.err))
        ELSE
    With([query |-> c.val, projection |-> projection,
          sort |-> IF isinstance(sort, "none") \/ sort.v = <<>> THEN None ELSE sort,
          skip |-> IF skip > 0 THEN Num(skip) ELSE None,
          limit |-> IF limit > 0 THEN Num(limit) ELSE None], LAMBDA cursor :
    With(Append(c.calls, StoreCall("find", cursor, resp)), LAMBDA e :
        IF resp.fail THEN Outcome(e, Raise("RuntimeError", "OperationFailure"))
        ELSE
    With([i \in 1..Len(resp.docs) |-> NormalizeId(resp.docs[i])], LAMBDA documents :
        Outcome(e, Return([documents |-> documents,
                           count |-> Len(documents),
                           hasMore |-> (limit > 0 /\ Len(documents) = limit),
                           query |-> c.val]))))))

find_documents(allow, query, projection, sort, limit, skip, resp) ==
    With(CheckQuery(allow, QueryOrEmpty(query)), LAMBDA c :
        IF ~c.ok THEN Outcome(c.calls, Raise("RuntimeError", c.err))
        ELSE
    With([query |-> c.val, projection |-> projection,
          sort |-> IF isinstance(sort, "none") \/ sort.v = <<>> THEN None ELSE sort,
          skip |-> IF skip > 0 THEN Num(skip) ELSE None,
          limit |-> IF limit > 0 THEN Num(limit) ELSE None], LAMBDA cursor :
    With(Append(c.calls, StoreCall("find", cursor, resp)), LAMBDA e :
        IF resp.fail THEN Outcome(e, Raise("RuntimeError", "OperationFailure"))
        ELSE
    With([i \in 1..Len(resp.docs) |-> NormalizeId(resp.docs[i])], LAMBDA documents :
        Outcome(e, Return([documents |-> documents,
                           count |-> Len(documents),
                           hasMore |-> (Len(documents) = limit),
                           query |-> c.val]))))))

find_one_document(allow, query, projection, resp) ==
    With(CheckQuery(allow, QueryOrEmpty(query)), LAMBDA c :
        IF ~c.ok THEN Outcome(c.calls, Raise("ValueError", c.err))
        ELSE
    With(Append(c.calls, StoreCall("find_one",
                                   [query |-> c.val, projection |-> projection],
                                   resp)), LAMBDA e :
        IF resp.fail THEN Outcome(e, Raise("RuntimeError", "OperationFailure"))
        ELSE Outcome(e, Return(IF resp.docs = <<>> THEN None
                               ELSE NormalizeId(resp.docs[1])))))

count_documents(allow, query, resp) ==
    With(CheckQuery(allow, QueryOrEmpty(query)), LAMBDA c :
        IF ~c.ok THEN Outcome(c.calls, Raise("ValueError", c.err))
        ELSE
    With(Append(c.calls, StoreCall("count_documents", [query |-> c.val], resp)),
         LAMBDA e :
        IF resp.fail THEN Outcome(e, Raise("RuntimeError", "OperationFailure"))
        ELSE Outcome(e, Return(Num(Len(resp.docs))))))

insert_document(allow, document, resp) ==
    IF ~allow THEN Outcome(<<>>, Raise("PermissionError", "dangerous_mode"))
    ELSE
    With(sanitize_document(document), LAMBDA s :
    With(<<SanitizerCall("sanitize_document", document, s)>>, LAMBDA e1 :
        IF ~s.ok THEN Outcome(e1, Raise("ValueError", s.err))
        ELSE
    With(Append(e1, StoreCall("insert_one", [document |-> s.val], resp)), LAMBDA e :
        IF resp.fail THEN Outcome(e, Raise("RuntimeError", "OperationFailure"))
        ELSE Outcome(e, Return([insertedId |-> Str(OidStr(1)),
                                acknowledged |-> TRUE])))))

\* update_document dispatching although sanitize_document(update) failed:
\* the update reaches the store as it was given.
update_document_UncheckedUpdate(allow, query, update, upsert, resp) ==
    IF ~allow THEN Outcome(<<>>, Raise("PermissionError", "dangerous_mode"))
    ELSE
    With(CheckQuery(allow, query), LAMBDA c :
        IF ~c.ok THEN Outcome(c.calls, Raise("ValueError", c.err))
        ELSE
    With(sanitize_document(update), LAMBDA u :
    With(Append(c.calls, SanitizerCall("sanitize_document", update, u)), LAMBDA e3 :
    With(Append(e3, StoreCall("update_many",
                              [query |-> c.val,
                               update |-> IF u.ok THEN u.val ELSE update,
                               upsert |-> upsert], resp)), LAMBDA e :
        IF resp.fail THEN Outcome(e, Raise("RuntimeError", "OperationFailure"))
        ELSE Outcome(e, Return([matchedCount |-> Len(resp.docs),
                                modifiedCount |-> Len(resp.docs),
                                upsertedId |-> None,
                                acknowledged |-> TRUE]))))))

update_document(allow, query, update, upsert, resp) ==
    IF ~allow THEN Outcome(<<>>, Raise("PermissionError", "dangerous_mode"))
    ELSE
    With(CheckQuery(allow, query), LAMBDA c :
        IF ~c.ok THEN Outcome(c.calls, Raise("ValueError", c.err))
        ELSE
    With(sanitize_document(update), LAMBDA u :
    With(Append(c.calls, SanitizerCall("sanitize_document", update, u)), LAMBDA e3 :
        IF ~u.ok THEN Outcome(e3, Raise("ValueError", u.err))
        ELSE
    With(Append(e3, StoreCall("update_many",
                              [query |-> c.val, update |-> u.val,
                               upsert |-> upsert], resp)), LAMBDA e :
        IF resp.fail THEN Outcome(e, Raise("RuntimeError", "OperationFailure"))
        ELSE Outcome(e, Return([matchedCount |-> Len(resp.docs),
                                modifiedCount |-> Len(resp.docs),
                                upsertedId |-> None,
                                acknowledged |-> TRUE]))))))

\* delete_document without the dangerous-mode gate.
delete_document_NoGate(allow, query, resp) ==
    With(CheckQuery(allow, query), LAMBDA c :
        IF ~c.ok THEN Outcome(c.calls, Raise("ValueError", c.err))
        ELSE
    With(Append(c.calls, StoreCall("delete_many", [query |-> c.val], resp)), LAMBDA e :
        IF resp.fail THEN Outcome(e, Raise("RuntimeError", "OperationFailure"))
        ELSE Outcome(e, Return([deletedCount |-> Len(resp.docs),
                                acknowledged |-> TRUE]))))

delete_document(allow, query, resp) ==
    IF ~allow THEN Outcome(<<>>, Raise("PermissionError", "dangerous_mode"))
    ELSE
    With(CheckQuery(allow, query), LAMBDA c :
        IF ~c.ok THEN Outcome(c.calls, Raise("ValueError", c.err))
        ELSE
    With(Append(c.calls, StoreCall("delete_many", [query |-> c.val], resp)), LAMBDA e :
        IF resp.fail THEN Outcome(e, Raise("RuntimeError", "OperationFailure"))
        ELSE Outcome(e, Return([deletedCount |-> Len(resp.docs),
                                acknowledged |-> TRUE]))))

---------------------------------------------------------------------------
(* handlers/aggregation.py *)

DefaultLimit == 100

DefaultMaxStages == 20

RECURSIVE SanitizeStagesFrom(_, _, _, _)
\* The loop "for stage in pipeline" of aggregate_pipeline from stage i on:
\* ok, the sanitized stages so far and the sanitizer calls made.
SanitizeStagesFrom(pipeline, i, sanitized_pipeline, calls) ==
    IF i > Len(pipeline)
    THEN [ok |-> TRUE, val |-> sanitized_pipeline, err |-> "", calls |-> calls]
    ELSE With(sanitize_query(pipeline[i]), LAMBDA s :
         With(Append(calls, SanitizerCall("sanitize_query", pipeline[i], s)), LAMBDA c :
            IF ~s.ok
            THEN [ok |-> FALSE, val |-> <<>>, err |-> s.err, calls |-> c]
            ELSE SanitizeStagesFrom(pipeline, i + 1,
                                    Append(sanitized_pipeline, s.val), c)))

\* Lines 40-43: the automatic limit.
AddLimit(sanitized_pipeline, limit) ==
    LET has_limit == \E i \in 1..Len(sanitized_pipeline) :
                        HasKey(sanitized_pipeline[i], S_limit)
    IN  IF ~has_limit /\ limit > 0
        THEN Append(sanitized_pipeline, Dict(<< <<S_limit, Num(limit)>> >>))
        ELSE sanitized_pipeline

aggregate_pipeline(allow, pipeline, limit, max_stages, resp) ==
    With(validate_pipeline(pipeline, allow, max_stages), LAMBDA v :
    With(<<ValidatorCall("validate_pipeline", pipeline, allow, v)>>, LAMBDA e1 :
        IF ~v.ok THEN Outcome(e1, Raise("RuntimeError", v.what))
        ELSE
    With(SanitizeStagesFrom(pipeline, 1, <<>>, <<>>), LAMBDA s :
    With(e1 \o s.calls, LAMBDA e2 :
        IF ~s.ok THEN Outcome(e2, Raise("RuntimeError", s.err))
        ELSE
    With(AddLimit(s.val, limit), LAMBDA dispatched :
    With(Append(e2, StoreCall("aggregate", [pipeline |-> dispatched], resp)), LAMBDA e3 :
        IF resp.fail THEN Outcome(e3, Raise("RuntimeError", "OperationFailure"))
        ELSE
    With([i \in 1..Len(resp.docs) |-> NormalizeId(resp.docs[i])], LAMBDA results :
        Outcome(e3, Return([results |-> results,
                            count |-> Len(results),
                            pipeline |-> dispatched,
                            hasMore |-> (Len(results) = limit)])))))))))

\* Line 84: the stage explain_aggregation puts after the caller's stages.
ExplainStage == Dict(<< <<S_explain, Dict(<< <<S_verbosity, Str(S_executionStats)>> >>)>> >>)

explain_aggregation(allow, pipeline, resp) ==
    With(validate_pipeline(pipeline, allow, DefaultMaxStages), LAMBDA v :
    With(<<ValidatorCall("validate_pipeline", pipeline, allow, v)>>, LAMBDA e1 :
        IF ~v.ok THEN Outcome(e1, Raise("ValueError", v.what))
        ELSE
    With(Append(pipeline, ExplainStage), LAMBDA explain_pipeline :
    With(Append(e1, StoreCall("aggregate", [pipeline |-> explain_pipeline], resp)),
         LAMBDA e2 :
        IF resp.fail THEN Outcome(e2, Raise("RuntimeError", "OperationFailure"))
        ELSE Outcome(e2, Return([executionPlan |-> IF resp.docs # <<>> THEN resp.docs[1]
                                                   ELSE EmptyDict,
                                 pipeline |-> pipeline]))))))

create_index(allow, keys, kwargs, resp) ==
    LET e1 == <<StoreCall("create_index", [keys |-> keys.v, kwargs |-> kwargs], resp)>>
    IN  IF ~allow THEN Outcome(<<>>, Raise("PermissionError", "dangerous_mode"))
        ELSE IF resp.fail THEN Outcome(e1, Raise("RuntimeError", "OperationFailure"))
        ELSE Outcome(e1, Return([indexName |-> Str(<<105, 120>>),
                                 keys |-> keys,
                                 options |-> kwargs]))

---------------------------------------------------------------------------
(* handlers/database.py *)

\* stats.get(..., 0): the number the store reports.
StatOf(resp) == Len(resp.docs)

list_databases(resp) ==
    With(<<StoreCall("command", [command |-> "listDatabases"], resp)>>, LAMBDA e :
        IF resp.fail THEN Outcome(e, Raise("RuntimeError", "OperationFailure"))
        ELSE Outcome(e, Return(resp.docs)))

get_database_stats(database_name, resp) ==
    With(<<StoreCall("command", [database |-> database_name, command |-> "dbStats"],
                     resp)>>, LAMBDA e :
        IF resp.fail THEN Outcome(e, Raise("RuntimeError", "OperationFailure"))
        ELSE Outcome(e, Return([database |-> database_name,
                                collections |-> StatOf(resp),
                                objects |-> StatOf(resp),
                                avgObjSize |-> StatOf(resp),
                                dataSize |-> StatOf(resp),
                                storageSize |-> StatOf(resp),
                                indexes |-> StatOf(resp),
                                indexSize |-> StatOf(resp)])))

RECURSIVE AnyNamed(_, _, _)
\* any(db['name'] == database_name for db in databases) from item i on;
\* FALSE too when db['name'] raises KeyError, which database_exists catches.
AnyNamed(databases, i, database_name) ==
    IF i > Len(databases) THEN FALSE
    ELSE IF ~HasKey(databases[i], S_name) THEN FALSE
    ELSE IF \E j \in 1..Len(databases[i].v) :
                databases[i].v[j] = <<S_name, Str(database_name)>>
         THEN TRUE
    ELSE AnyNamed(databases, i + 1, database_name)

database_exists(database_name, resp) ==
    With(list_databases(resp), LAMBDA r :
        IF r.result.kind = "raise" THEN Outcome(r.events, Return(FALSE))
        ELSE Outcome(r.events, Return(AnyNamed(r.result.value, 1, database_name))))

---------------------------------------------------------------------------
(* handlers/collection.py *)

list_collections(database_name, resp) ==
    With(<<StoreCall("list_collection_names", [database |-> database_name], resp)>>,
         LAMBDA e :
        IF resp.fail THEN Outcome(e, Raise("RuntimeError", "OperationFailure"))
        ELSE Outcome(e, Return([i \in 1..Len(resp.docs) |->
                                   [name |-> resp.docs[i], type |-> "collection"]])))

describe_collection(database_name, collection_name, indexes, stats, sample) ==
    With(<<StoreCall("list_indexes",
                     [database |-> database_name, collection |-> collection_name],
                     indexes)>>, LAMBDA e1 :
        IF indexes.fail THEN Outcome(e1, Raise("RuntimeError", "OperationFailure"))
        ELSE
    With(Append(e1, StoreCall("command",
                              [database |-> database_name, command |-> "collStats",
                               collection |-> collection_name], stats)), LAMBDA e2 :
        IF stats.fail THEN Outcome(e2, Raise("RuntimeError", "OperationFailure"))
        ELSE
    With(Append(e2, StoreCall("aggregate",
                              [database |-> database_name,
                               collection |-> collection_name], sample)), LAMBDA e3 :
        IF sample.fail THEN Outcome(e3, Raise("RuntimeError", "OperationFailure"))
        ELSE Outcome(e3, Return([collection |-> collection_name,
                                 database |-> database_name,
                                 indexes |-> indexes.docs,
                                 stats |-> [count |-> StatOf(stats),
                                            size |-> StatOf(stats),
                                            storageSize |-> StatOf(stats),
                                            avgObjSize |-> StatOf(stats)],
                                 sampleSchema |-> sample.docs])))))

get_collection_stats(database_name, collection_name, resp) ==
    With(<<StoreCall("command",
                     [database |-> database_name, command |-> "collStats",
                      collection |-> collection_name], resp)>>, LAMBDA e :
        IF resp.fail THEN Outcome(e, Raise("RuntimeError", "OperationFailure"))
        ELSE Outcome(e, Return([collection |-> collection_name,
                                database |-> database_name,
                                count |-> StatOf(resp),
                                size |-> StatOf(resp),
                                storageSize |-> StatOf(resp),
                                avgObjSize |-> StatOf(resp),
                                indexCount |-> StatOf(resp),
                                indexSize |-> StatOf(resp)])))

list_indexes(database_name, collection_name, resp) ==
    With(<<StoreCall("list_indexes",
                     [database |-> database_name, collection |-> collection_name],
                     resp)>>, LAMBDA e :
        IF resp.fail THEN Outcome(e, Raise("RuntimeError", "OperationFailure"))
        ELSE Outcome(e, Return(resp.docs)))

---------------------------------------------------------------------------
(* server.py, mcp_server.py, simple_server.py: from a tool name to a handler *)

\* An entry point calling a handler method; what the method does is the
\* handler's own operation.
HandlerCall(method) == [target |-> "handler", ev |-> method, arg |-> <<>>, ok |-> TRUE]

\* The functions server.py registers with @mcp.tool, and the handler method
\* each of them calls.
FastMCPTools ==
    [ list_databases |-> "database.list_databases",
      get_database_stats |-> "database.get_database_stats",
      list_collections |-> "collection.list_collections",
      describe_collection |-> "collection.describe_collection",
      get_collection_stats |-> "collection.get_collection_stats",
      list_indexes |-> "collection.list_indexes",
      find_documents |-> "document.find_documents",
      find_one_document |-> "document.find_one_document",
      count_documents |-> "document.count_documents",
      aggregate_pipeline |-> "aggregation.aggregate_pipeline",
      insert_document |-> "document.insert_document",
      update_document |-> "document.update_document",
      delete_document |-> "document.delete_document",
      create_index |-> "aggregation.create_index" ]

\* A tool call received by FastMCP: the registered function of that name
\* runs; FastMCP answers a name that is not registered with an error.
fastmcp_tool(name) ==
    IF name \in DOMAIN FastMCPTools
    THEN Outcome(<<HandlerCall(FastMCPTools[name])>>, Return(None))
    ELSE Outcome(<<>>, Raise("ToolError", "unknown_tool"))

\* MCPServer.handle_tool_call
handle_tool_call(initialized, name) ==
    IF ~initialized THEN Outcome(<<>>, Raise("RuntimeError", "not_initialized"))
    ELSE IF name = "list_databases"
         THEN Outcome(<<HandlerCall("database.list_databases")>>, Return(None))
    ELSE IF name = "list_collections"
         THEN Outcome(<<HandlerCall("collection.list_collections")>>, Return(None))
    ELSE IF name = "find_documents"
         THEN Outcome(<<HandlerCall("document.find_documents")>>, Return(None))
    ELSE IF name = "count_documents"
         THEN Outcome(<<HandlerCall("document.count_documents")>>, Return(None))
    ELSE IF name = "aggregate_pipeline"
         THEN Outcome(<<HandlerCall("aggregation.aggregate_pipeline")>>, Return(None))
    ELSE Outcome(<<>>, Raise("ValueError", "unknown_tool"))

\* SimpleMCPServer.call_tool; database and collection tell whether the
\* parameter is given (and not empty).
call_tool(tool_name, database, collection) ==
    IF tool_name = "list_databases"
    THEN Outcome(<<HandlerCall("database.list_databases")>>, Return(None))
    ELSE IF tool_name = "list_collections"
         THEN IF ~database THEN Outcome(<<>>, Raise("ValueError", "missing_parameter"))
              ELSE Outcome(<<HandlerCall("collection.list_collections")>>, Return(None))
    ELSE IF tool_name \in {"find_documents", "count_documents", "aggregate_pipeline"}
         THEN IF ~database \/ ~collection
              THEN Outcome(<<>>, Raise("ValueError", "missing_parameter"))
              ELSE Outcome(<<HandlerCall(
                        IF tool_name = "find_documents" THEN "document.find_documents"
                        ELSE IF tool_name = "count_documents" THEN "document.count_documents"
                        ELSE "aggregation.aggregate_pipeline")>>, Return(None))
    ELSE Outcome(<<>>, Raise("ValueError", "unknown_tool"))

---------------------------------------------------------------------------
(* server.py: ensure_server_initialized under concurrent tool calls *)

\* The tool calls FastMCP runs at the same time, each a task of the event loop.
MaxTasks == 3

Tasks == 1..MaxTasks

\* A task runs from one await that suspends to the next without interleaving.
\* The tool body, line 65: server_instance.db_handler.list_databases().
ToolBody(handler) == IF handler = "None" THEN "AttributeError" ELSE "in_handler"

\* A tool call starts: ensure_server_initialized up to the await of
\* connection.connect() when server_instance is None, and otherwise
\* straight on to the tool body.
ToolCallStarts(t) ==
    /\ task[t] = "waiting"
    /\ IF server_instance = "None"
       THEN /\ server_instance' = "MongoDBMCPServer"
            /\ task' = [task EXCEPT ![t] = "in_connect"]
       ELSE /\ task' = [task EXCEPT ![t] = ToolBody(db_handler)]
            /\ UNCHANGED server_instance
    /\ UNCHANGED <<db_handler, setups>>
    /\ UNCHANGED <<handlerVars, loopVars>>

\* connection.connect() returns, or raises ConnectionError: the rest of
\* setup, and the tool body up to the handler's await.
ConnectEnds(t) ==
    /\ task[t] = "in_connect"
    /\ \E connected \in BOOLEAN :
        IF connected
        THEN /\ db_handler' = "DatabaseHandler"
             /\ setups' = setups + 1
             /\ task' = [task EXCEPT ![t] = ToolBody("DatabaseHandler")]
        ELSE /\ task' = [task EXCEPT ![t] = "ConnectionError"]
             /\ UNCHANGED <<db_handler, setups>>
    /\ UNCHANGED server_instance
    /\ UNCHANGED <<handlerVars, loopVars>>

\* The handler's operation returns to the tool function.
HandlerReturns(t) ==
    /\ task[t] = "in_handler"
    /\ task' = [task EXCEPT ![t] = "returned"]
    /\ UNCHANGED <<server_instance, db_handler, setups>>
    /\ UNCHANGED <<handlerVars, loopVars>>

\* The call is answered, with its result or its exception, and the client
\* sends another.
NextToolCall(t) ==
    /\ task[t] \in {"returned", "AttributeError", "ConnectionError"}
    /\ task' = [task EXCEPT ![t] = "waiting"]
    /\ UNCHANGED <<server_instance, db_handler, setups>>
    /\ UNCHANGED <<handlerVars, loopVars>>

ServerNext ==
    \/ \E t \in Tasks : ToolCallStarts(t)
    \/ \E t \in Tasks : ConnectEnds(t)
    \/ \E t \in Tasks : HandlerReturns(t)
    \/ \E t \in Tasks : NextToolCall(t)

---------------------------------------------------------------------------
(* mcp_server.py: the stdio loop MCPServer.run *)

\* A local variable no assignment has reached yet.
Unbound == [t |-> "unbound", v |-> 0]

\* send_response(id, result)
Response(id) == [id |-> id, kind |-> "result", code |-> 0]

\* send_error(id, code, message)
Error(id, code) == [id |-> id, kind |-> "error", code |-> code]

\* What one pass of the loop body leaves: the local req_id, self.initialized,
\* the messages written, and whether an exception left the loop.
Pass(id, init, out, escaped) ==
    [req_id |-> id, initialized |-> init, out |-> out, escaped |-> escaped]

\* The body of "while True" for a line that is not the end of input.
\* setup_ok: whether setup_handlers succeeds; handler_ok: whether the
\* handler's operation (and json.dumps of its result) succeeds.
run_iteration(line, old_req_id, init, setup_ok, handler_ok) ==
    IF line.json = "invalid"
    THEN \* json.JSONDecodeError
         Pass(old_req_id, init, <<Error(None, -32700)>>, FALSE)
    ELSE IF line.json = "value"
    THEN \* request.get raises AttributeError before req_id is assigned;
         \* the handler of Exception reads req_id
         IF old_req_id = Unbound
         THEN Pass(old_req_id, init, <<>>, TRUE)
         ELSE Pass(old_req_id, init, <<Error(old_req_id, -32603)>>, FALSE)
    ELSE IF line.method = "initialize"
    THEN IF init THEN Pass(line.id, init, <<Response(line.id)>>, FALSE)
         ELSE IF setup_ok THEN Pass(line.id, TRUE, <<Response(line.id)>>, FALSE)
         ELSE Pass(line.id, init, <<Error(line.id, -32603)>>, FALSE)
    ELSE IF line.method = "tools/list"
    THEN Pass(line.id, init, <<Response(line.id)>>, FALSE)
    ELSE IF line.method = "tools/call"
    THEN IF handle_tool_call(init, line.name).result.kind = "return" /\ handler_ok
         THEN Pass(line.id, init, <<Response(line.id)>>, FALSE)
         ELSE Pass(line.id, init, <<Error(line.id, -32603)>>, FALSE)
    ELSE Pass(line.id, init, <<Error(line.id, -32601)>>, FALSE)

\* The lines a pass is given: text that is not JSON (a blank line too), a
\* JSON value that is not an object, and requests.
MaxLines == 3

RequestIds == {None, Num(1), Num(2)}

Lines ==
    { [json |-> "invalid", id |-> None, method |-> "", name |-> ""],
      [json |-> "value", id |-> None, method |-> "", name |-> ""] }
    \cup { [json |-> "object", id |-> i, method |-> m, name |-> ""] :
             i \in RequestIds, m \in {"initialize", "tools/list", "resources/list"} }
    \cup { [json |-> "object", id |-> i, method |-> "tools/call", name |-> n] :
             i \in RequestIds, n \in {"list_databases", "find_one_document"} }

\* One pass of the loop: a line is read and handled.
ReadLine ==
    /\ loop = "running"
    /\ Len(stdin_read) < MaxLines
    /\ \E line \in Lines, setup_ok \in BOOLEAN, handler_ok \in BOOLEAN :
        With(run_iteration(line, req_id, self_initialized, setup_ok, handler_ok),
             LAMBDA p :
                /\ stdin_read' = Append(stdin_read, line)
                /\ req_id' = p.req_id
                /\ self_initialized' = p.initialized
                /\ stdout' = stdout \o p.out
                /\ loop' = IF p.escaped THEN "UnboundLocalError" ELSE "running")
    /\ UNCHANGED <<handlerVars, serverVars>>

\* readline returns the empty string: break.
EndOfInput ==
    /\ loop = "running"
    /\ loop' = "eof"
    /\ UNCHANGED <<self_initialized, req_id, stdin_read, stdout>>
    /\ UNCHANGED <<handlerVars, serverVars>>

\* KeyboardInterrupt while waiting for a line.
Interrupt ==
    /\ loop = "running"
    /\ loop' = "KeyboardInterrupt"
    /\ UNCHANGED <<self_initialized, req_id, stdin_read, stdout>>
    /\ UNCHANGED <<handlerVars, serverVars>>

LoopNext == ReadLine \/ EndOfInput \/ Interrupt

---------------------------------------------------------------------------
(* Inputs *)

GenDepth == 3       \* nesting of the generated queries

MaxPipeLen == 2     \* length of the generated pipelines

S_custom == <<36, 99, 117, 115, 116, 111, 109>>  \* "$custom"

RECURSIVE GenValues(_)
\* Every value of nesting at most d built from one scalar, the keys "a",
\* "$gt", "$where", "$custom" and containers of at most one element.
GenValues(d) ==
    IF d = 0 THEN {Num(1)}
    ELSE LET sub == GenValues(d - 1)
         IN  {Num(1), EmptyDict, List(<<>>)}
             \cup {Dict(<< <<k, x>> >>) : k \in {S_a, S_gt, S_where, S_custom}, x \in sub}
             \cup {List(<<x>>) : x \in sub}

GenQueries == {x \in GenValues(GenDepth) : isinstance(x, "dict")}

RECURSIVE NestDict(_, _)
\* {"a": {"a": ... leaf}} with k mappings around the leaf.
NestDict(k, leaf) ==
    IF k = 0 THEN leaf ELSE Dict(<< <<S_a, NestDict(k - 1, leaf)>> >>)

LongString == [i \in 1..(MAX_STRING_LENGTH + 1) |-> 97]

Q_age == Dict(<< << <<97, 103, 101>>, Dict(<< <<S_gt, Num(18)>> >>) >> >>)   \* {"age": {"$gt": 18}}

Q_or_where ==   \* {"$or": [{"a": 1}, {"$where": "1"}]}
    Dict(<< <<S_or, List(<< Dict(<< <<S_a, Num(1)>> >>),
                            Dict(<< <<S_where, Str(<<49>>)>> >>) >>)>> >>)

Q_list_list_where ==   \* {"a": [[{"$where": "1"}]]}
    Dict(<< <<S_a, List(<< List(<< Dict(<< <<S_where, Str(<<49>>)>> >>) >>) >>)>> >>)

Q_list_list_custom ==   \* {"a": [[{"$custom": 1}]]}
    Dict(<< <<S_a, List(<< List(<< Dict(<< <<S_custom, Num(1)>> >>) >>) >>)>> >>)

Q_space_where == Dict(<< << <<32>> \o S_where, Str(<<49>>) >> >>)    \* {" $where": "1"}

Q_nul_where == Dict(<< << <<0>> \o S_where, Str(<<49>>) >> >>)       \* {"\x00$where": "1"}

Q_space_custom == Dict(<< << <<32>> \o S_custom, Num(1) >> >>)       \* {" $custom": 1}

Q_dirty == Dict(<< <<S_name, Str(S_bob)>> >>)                        \* {"name": " bob "}

Q_collide == Dict(<< <<S_a, Num(1)>>, << <<32>> \o S_a, Num(2) >> >>)   \* {"a": 1, " a": 2}

Q_deep_ok == NestDict(MAX_QUERY_DEPTH, Num(1))

Q_too_deep == NestDict(MAX_QUERY_DEPTH + 1, Num(1))

Q_long_string == Dict(<< <<S_a, Str(LongString)>> >>)

Queries ==
    GenQueries \cup
    { Q_age, Q_or_where, Q_list_list_where, Q_list_list_custom, Q_space_where,
      Q_nul_where, Q_space_custom, Q_dirty, Q_collide, Q_deep_ok, Q_too_deep,
      Q_long_string }

Projections == {None, Dict(<< <<S_name, Num(1)>> >>)}

Sorts == {None, Dict(<< <<S_a, Num(-1)>> >>)}

Limits == {-1, 0, 1, DefaultLimit}

Skips == {0, 1}

Documents ==
    { Dict(<< <<S_name, Str(S_bob)>> >>),
      Dict(<< << <<36, 115, 101, 116>>, Dict(<< <<S_a, Num(1)>> >>) >> >>),   \* {"$set": {"a": 1}}
      Q_too_deep,
      Q_long_string }

St_match == Dict(<< <<S_match, Dict(<< <<S_a, Num(1)>> >>)>> >>)    \* {"$match": {"a": 1}}

St_dirty == Dict(<< <<S_match, Q_dirty>> >>)                         \* {"$match": {"name": " bob "}}

St_limit == Dict(<< <<S_limit, Num(5)>> >>)                          \* {"$limit": 5}

St_out == Dict(<< <<S_out, Str(S_a)>> >>)                            \* {"$out": "a"}

St_custom == Dict(<< <<S_custom, Num(1)>> >>)                        \* {"$custom": 1}

St_plain == Dict(<< << <<109, 97, 116, 99, 104>>, EmptyDict >> >>)   \* {"match": {}}

St_two == Dict(<< <<S_match, EmptyDict>>, <<S_sort, Dict(<< <<S_a, Num(1)>> >>)>> >>)

St_where == Dict(<< <<S_match, Dict(<< <<S_where, Str(<<49>>)>> >>)>> >>)   \* {"$match": {"$where": "1"}}

\* {"$facet": {"a": [{"$out": "a"}]}}
St_facet_out == Dict(<< <<S_facet, Dict(<< <<S_a, List(<<St_out>>)>> >>)>> >>)

St_too_deep == Dict(<< <<S_match, NestDict(MAX_QUERY_DEPTH, Num(1))>> >>)

Stages ==
    {St_match, St_dirty, St_limit, St_out, St_custom, St_plain, EmptyDict, St_two, Num(5)}

RECURSIVE GenPipelines(_)
\* Every pipeline of at most n stages drawn from Stages.
GenPipelines(n) ==
    IF n = 0 THEN {<<>>}
    ELSE LET shorter == GenPipelines(n - 1)
         IN  shorter \cup {Append(p, s) : p \in shorter, s \in Stages}

\* n copies of a stage.
Repeat(stage, n) == [i \in 1..n |-> stage]

Pipelines ==
    GenPipelines(MaxPipeLen) \cup
    { Repeat(St_match, DefaultMaxStages),
      Repeat(St_match, DefaultMaxStages + 1),
      Repeat(Num(5), DefaultMaxStages + 1),
      Append(Repeat(St_match, DefaultMaxStages - 1), St_limit),
      <<St_match, St_where>>,
      <<St_facet_out>>,
      <<St_match, St_too_deep>>,
      <<St_limit, St_too_deep>> }

MaxStages == {1, DefaultMaxStages}

IndexKeys == {Dict(<< <<S_a, Num(1)>> >>), EmptyDict}

RECURSIVE NestList(_, _)
\* [[... leaf]] with k sequences around the leaf.
NestList(k, leaf) == IF k = 0 THEN leaf ELSE List(<<NestList(k - 1, leaf)>>)

RECURSIVE NestMixed(_, _)
\* {"a": [{"a": [... leaf]}]} with k containers around the leaf, mappings
\* and sequences in turn.
NestMixed(k, leaf) ==
    IF k = 0 THEN leaf
    ELSE IF k % 2 = 0 THEN Dict(<< <<S_a, NestMixed(k - 1, leaf)>> >>)
    ELSE List(<<NestMixed(k - 1, leaf)>>)

\* The structures _check_depth is called on: the generated values, and
\* chains of MAX_QUERY_DEPTH - 1 .. MAX_QUERY_DEPTH + 1 containers around a
\* scalar or an empty container, with a shallow sibling next to the chain.
DeepStructures ==
    LET chains == UNION { {NestDict(k, leaf), NestList(k, leaf), NestMixed(k, leaf)} :
                            k \in (MAX_QUERY_DEPTH - 1)..(MAX_QUERY_DEPTH + 1),
                            leaf \in {Num(1), Str(S_a), EmptyDict, List(<<>>)} }
    IN  chains
        \cup {Dict(<< <<S_name, Num(1)>>, <<S_a, c>> >>) : c \in chains}
        \cup GenValues(GenDepth)
        \cup {Num(1), None}

MaxStrLen == 3      \* length of the generated strings

\* NUL, TAB, US (a control character that str.strip() removes too), space,
\* "a", DEL and the no-break space.
Chars == {0, 9, 31, 32, 97, 127, 160}

RECURSIVE GenStrings(_)
\* Every string of at most n characters drawn from Chars.
GenStrings(n) ==
    IF n = 0 THEN {<<>>}
    ELSE LET shorter == GenStrings(n - 1)
         IN  shorter \cup {Append(s, c) : s \in shorter, c \in Chars}

\* " aaa...a\x00": MAX_STRING_LENGTH characters, two of them stripped.
PaddedString ==
    [i \in 1..MAX_STRING_LENGTH |->
        IF i = 1 THEN 32 ELSE IF i = MAX_STRING_LENGTH THEN 0 ELSE 97]

\* What sanitize_string is called on: strings up to and over the length
\* limit, and values that are not strings.
StringInputs ==
    {Str(s) : s \in GenStrings(MaxStrLen)}
    \cup { Str(PaddedString),
           Str(<<32>> \o [i \in 1..MAX_STRING_LENGTH |-> 97]),
           Str(LongString),
           Num(5), None, EmptyDict }

Q_list_dirty ==   \* {"a": [" bob ", {" name": " bob "}]}
    Dict(<< <<S_a, List(<< Str(S_bob),
                           Dict(<< << <<32>> \o S_name, Str(S_bob) >> >>) >>)>> >>)

Q_list_list_dirty ==   \* {"a": [[" bob "]]}
    Dict(<< <<S_a, List(<< List(<< Str(S_bob) >>) >>)>> >>)

Q_list_list_long ==   \* {"a": [["aaa..."]]}, 1001 characters
    Dict(<< <<S_a, List(<< List(<< Str(LongString) >>) >>)>> >>)

Q_list_long ==   \* {"a": {"a": ["aaa..."]}}, 1001 characters
    Dict(<< <<S_a, Dict(<< <<S_a, List(<< Str(LongString) >>)>> >>)>> >>)

Q_dirty_then_long ==   \* {" name": " bob ", "a": {" name": " bob ", "a": "aaa..."}}
    Dict(<< << <<32>> \o S_name, Str(S_bob) >>,
            <<S_a, Dict(<< << <<32>> \o S_name, Str(S_bob) >>,
                           <<S_a, Str(LongString)>> >>)>> >>)

\* The structures sanitize_query and sanitize_document are called on.
Structures ==
    Queries \cup Documents \cup
    { Q_list_dirty, Q_list_list_dirty, Q_list_list_long, Q_list_long,
      Q_dirty_then_long,
      NestDict(MAX_QUERY_DEPTH, EmptyDict), NestDict(MAX_QUERY_DEPTH + 1, EmptyDict) }

DatabaseNames == {S_a, S_name}

CollectionNames == {S_a, S_name}

\* What admin.command("listDatabases") answers: an OperationFailure, or
\* the databases, each with its name.
DatabaseResponses ==
    { [fail |-> TRUE, docs |-> <<>>],
      [fail |-> FALSE, docs |-> <<>>],
      [fail |-> FALSE, docs |-> << Dict(<< <<S_name, Str(S_a)>> >>) >>],
      [fail |-> FALSE, docs |-> << Dict(<< <<S_name, Str(S_a)>> >>),
                                   Dict(<< <<S_name, Str(S_name)>> >>) >>],
      [fail |-> FALSE, docs |-> << EmptyDict, Dict(<< <<S_name, Str(S_a)>> >>) >>] }

\* The names a client calls a tool by: the registered ones and two others.
CalledNames == DOMAIN FastMCPTools \cup {"explain_aggregation", "drop_database"}

---------------------------------------------------------------------------
(* The state machine: one action per operation, each a whole call *)

Init ==
    /\ allow_dangerous \in BOOLEAN
    /\ op = "idle"
    /\ args = <<>>
    /\ events = <<>>
    /\ result = Return(None)
    /\ server_instance = "None"
    /\ db_handler = "None"
    /\ setups = 0
    /\ task = [t \in Tasks |-> "waiting"]
    /\ self_initialized = FALSE
    /\ req_id = Unbound
    /\ stdin_read = <<>>
    /\ stdout = <<>>
    /\ loop = "running"

\* A handler that leaves dangerous mode once a call of it has failed.
Call_FailureLeavesDangerousMode(name, a, outcome) ==
    /\ op' = name
    /\ args' = a
    /\ events' = outcome.events
    /\ result' = outcome.result
    /\ allow_dangerous' = (allow_dangerous /\ outcome.result.kind = "return")
    /\ UNCHANGED <<serverVars, loopVars>>

\* One call, from its arguments to its return or exception. Calls are
\* taken one at a time: the handlers keep nothing from one call to the next.
Call(name, a, outcome) ==
    /\ op' = name
    /\ args' = a
    /\ events' = outcome.events
    /\ result' = outcome.result
    /\ UNCHANGED allow_dangerous
    /\ UNCHANGED <<serverVars, loopVars>>

FindDocuments ==
    /\ op = "idle"
    /\ \E query \in Queries \cup {None}, projection \in Projections, sort \in Sorts,
       limit \in Limits, skip \in Skips, resp \in StoreResponses :
        Call("find_documents",
             [query |-> query, projection |-> projection, sort |-> sort,
              limit |-> limit, skip |-> skip],
             find_documents(allow_dangerous, query, projection, sort, limit, skip, resp))

FindOneDocument ==
    /\ op = "idle"
    /\ \E query \in Queries \cup {None}, projection \in Projections,
       resp \in StoreResponses :
        Call("find_one_document",
             [query |-> query, projection |-> projection],
             find_one_document(allow_dangerous, query, projection, resp))

CountDocuments ==
    /\ op = "idle"
    /\ \E query \in Queries \cup {None}, resp \in StoreResponses :
        Call("count_documents", [query |-> query],
             count_documents(allow_dangerous, query, resp))

InsertDocument ==
    /\ op = "idle"
    /\ \E document \in Documents, resp \in StoreResponses :
        Call("insert_document", [document |-> document],
             insert_document(allow_dangerous, document, resp))

UpdateDocument ==
    /\ op = "idle"
    /\ \E query \in Queries, update \in Documents, upsert \in BOOLEAN,
       resp \in StoreResponses :
        Call("update_document",
             [query |-> query, update |-> update, upsert |-> upsert],
             update_document(allow_dangerous, query, update, upsert, resp))

DeleteDocument ==
    /\ op = "idle"
    /\ \E query \in Queries, resp \in StoreResponses :
        Call("delete_document", [query |-> query],
             delete_document(allow_dangerous, query, resp))

AggregatePipeline ==
    /\ op = "idle"
    /\ \E pipeline \in Pipelines, limit \in Limits, max_stages \in MaxStages,
       resp \in StoreResponses :
        Call("aggregate_pipeline",
             [pipeline |-> pipeline, limit |-> limit, max_stages |-> max_stages],
             aggregate_pipeline(allow_dangerous, pipeline, limit, max_stages, resp))

ExplainAggregation ==
    /\ op = "idle"
    /\ \E pipeline \in Pipelines, resp \in StoreResponses :
        Call("explain_aggregation", [pipeline |-> pipeline],
             explain_aggregation(allow_dangerous, pipeline, resp))

CreateIndex ==
    /\ op = "idle"
    /\ \E keys \in IndexKeys, unique \in BOOLEAN, resp \in StoreResponses :
        Call("create_index", [keys |-> keys, unique |-> unique],
             create_index(allow_dangerous, keys, [unique |-> unique], resp))

\* QueryValidator.validate_query called on its own.
ValidateQuery ==
    /\ op = "idle"
    /\ \E query \in Queries, allow \in BOOLEAN :
        LET r == validate_query(query, allow)
        IN  Call("validate_query", [query |-> query, allow_dangerous |-> allow],
                 Outcome(<<>>, IF r.ok THEN Return(None) ELSE Raise("ValueError", r.what)))

\* AggregationValidator.validate_pipeline called on its own.
ValidatePipeline ==
    /\ op = "idle"
    /\ \E pipeline \in Pipelines, allow \in BOOLEAN, max_stages \in MaxStages :
        LET r == validate_pipeline(pipeline, allow, max_stages)
        IN  Call("validate_pipeline",
                 [pipeline |-> pipeline, allow_dangerous |-> allow,
                  max_stages |-> max_stages],
                 Outcome(<<>>, IF r.ok THEN Return(None) ELSE Raise("ValueError", r.what)))

\* InputSanitizer._check_depth(obj, 0) called on its own.
CheckDepth ==
    /\ op = "idle"
    /\ \E obj \in DeepStructures :
        Call("_check_depth", [obj |-> obj],
             Outcome(<<>>, IF _check_depth(obj, 0) THEN Return(None)
                           ELSE Raise("ValueError", "depth")))

\* InputSanitizer.sanitize_string called on its own.
SanitizeString ==
    /\ op = "idle"
    /\ \E value \in StringInputs :
        Call("sanitize_string", [value |-> value],
             With(sanitize_string(value), LAMBDA r :
                Outcome(<<>>, IF r.ok THEN Return(Str(r.val))
                              ELSE Raise("ValueError", r.err))))

\* One sanitizer call on its own: the call, and what it returns or raises.
SanitizerOutcome(name, arg, r) ==
    Outcome(<<SanitizerCall(name, arg, r)>>,
            IF r.ok THEN Return(r.val) ELSE Raise("ValueError", r.err))

\* InputSanitizer.sanitize_query called on its own.
SanitizeQuery ==
    /\ op = "idle"
    /\ \E query \in Structures :
        Call("sanitize_query", [query |-> query],
             SanitizerOutcome("sanitize_query", query, sanitize_query(query)))

\* InputSanitizer.sanitize_document called on its own.
SanitizeDocument ==
    /\ op = "idle"
    /\ \E document \in Structures :
        Call("sanitize_document", [document |-> document],
             SanitizerOutcome("sanitize_document", document, sanitize_document(document)))

ListDatabases ==
    /\ op = "idle"
    /\ \E resp \in DatabaseResponses :
        Call("list_databases", <<>>, list_databases(resp))

GetDatabaseStats ==
    /\ op = "idle"
    /\ \E database_name \in DatabaseNames, resp \in StoreResponses :
        Call("get_database_stats", [database_name |-> database_name],
             get_database_stats(database_name, resp))

DatabaseExists ==
    /\ op = "idle"
    /\ \E database_name \in DatabaseNames, resp \in DatabaseResponses :
        Call("database_exists", [database_name |-> database_name],
             database_exists(database_name, resp))

ListCollections ==
    /\ op = "idle"
    /\ \E database_name \in DatabaseNames, resp \in StoreResponses :
        Call("list_collections", [database_name |-> database_name],
             list_collections(database_name, resp))

DescribeCollection ==
    /\ op = "idle"
    /\ \E database_name \in DatabaseNames, collection_name \in CollectionNames,
          indexes \in StoreResponses, stats \in StoreResponses,
          sample \in StoreResponses :
        Call("describe_collection",
             [database_name |-> database_name, collection_name |-> collection_name],
             describe_collection(database_name, collection_name, indexes, stats, sample))

GetCollectionStats ==
    /\ op = "idle"
    /\ \E database_name \in DatabaseNames, collection_name \in CollectionNames,
          resp \in StoreResponses :
        Call("get_collection_stats",
             [database_name |-> database_name, collection_name |-> collection_name],
             get_collection_stats(database_name, collection_name, resp))

ListIndexes ==
    /\ op = "idle"
    /\ \E database_name \in DatabaseNames, collection_name \in CollectionNames,
          resp \in StoreResponses :
        Call("list_indexes",
             [database_name |-> database_name, collection_name |-> collection_name],
             list_indexes(database_name, collection_name, resp))

\* A tool call through the FastMCP server of server.py.
FastMCPTool ==
    /\ op = "idle"
    /\ \E name \in CalledNames :
        Call("tool_call", [entry |-> "server", name |-> name, initialized |-> TRUE,
                           database |-> TRUE, collection |-> TRUE],
             fastmcp_tool(name))

\* A tools/call request of the stdio server of mcp_server.py.
HandleToolCall ==
    /\ op = "idle"
    /\ \E name \in CalledNames, initialized \in BOOLEAN :
        Call("tool_call", [entry |-> "mcp_server", name |-> name,
                           initialized |-> initialized,
                           database |-> TRUE, collection |-> TRUE],
             handle_tool_call(initialized, name))

\* A tools/call request of the server of simple_server.py.
CallTool ==
    /\ op = "idle"
    /\ \E tool_name \in CalledNames, database \in BOOLEAN, collection \in BOOLEAN :
        Call("tool_call", [entry |-> "simple_server", name |-> tool_name,
                           initialized |-> TRUE,
                           database |-> database, collection |-> collection],
             call_tool(tool_name, database, collection))

\* The caller takes the result; the next call starts from the same handler.
Respond ==
    /\ op # "idle"
    /\ op' = "idle"
    /\ args' = <<>>
    /\ events' = <<>>
    /\ result' = Return(None)
    /\ UNCHANGED allow_dangerous
    /\ UNCHANGED <<serverVars, loopVars>>

Next ==
    \/ FindDocuments
    \/ FindOneDocument
    \/ CountDocuments
    \/ InsertDocument
    \/ UpdateDocument
    \/ DeleteDocument
    \/ AggregatePipeline
    \/ ExplainAggregation
    \/ CreateIndex
    \/ ValidateQuery
    \/ ValidatePipeline
    \/ CheckDepth
    \/ SanitizeString
    \/ SanitizeQuery
    \/ SanitizeDocument
    \/ ListDatabases
    \/ GetDatabaseStats
    \/ DatabaseExists
    \/ ListCollections
    \/ DescribeCollection
    \/ GetCollectionStats
    \/ ListIndexes
    \/ FastMCPTool
    \/ HandleToolCall
    \/ CallTool
    \/ Respond

Spec == Init /\ [][Next]_vars

\* The FastMCP server's tool calls, as tasks of one event loop.
ServerSpec == Init /\ [][ServerNext]_vars

\* The stdio server's loop.
LoopSpec == Init /\ [][LoopNext]_vars

---------------------------------------------------------------------------
(* Properties *)

RECURSIVE AllKeys(_)
\* Every mapping key of a value, at every nesting level.
AllKeys(x) ==
    IF isinstance(x, "dict")
    THEN UNION {{x.v[i][1]} \cup AllKeys(x.v[i][2]) : i \in 1..Len(x.v)}
    ELSE IF isinstance(x, "list")
         THEN UNION {AllKeys(x.v[i]) : i \in 1..Len(x.v)}
    ELSE {}

\* The operator-prefixed keys of a value, at every nesting level.
OperatorKeys(x) == {k \in AllKeys(x) : StartsWithDollar(k)}

AllowedOperators(allow) ==
    SAFE_QUERY_OPERATORS \cup (IF allow THEN DANGEROUS_OPERATORS ELSE {})

AllowedStages(allow) ==
    SAFE_STAGES \cup (IF allow THEN DANGEROUS_STAGES ELSE {})

StoreCalls == {i \in 1..Len(events) : events[i].target = "store"}

QueryMethods == {"find", "find_one", "count_documents", "update_many", "delete_many"}

WriteOps == {"insert_document", "update_document", "delete_document", "create_index"}

ExecutorOps ==
    {"find_documents", "find_one_document", "count_documents", "aggregate_pipeline",
     "insert_document", "update_document", "delete_document"}

\* C1 (as claimed): every query handed to the store by find_documents,
\* find_one_document, count_documents, update_document or delete_document
\* holds, at every nesting level, only operator keys of SAFE_QUERY_OPERATORS,
\* or of DANGEROUS_OPERATORS too in dangerous mode.
C1_DispatchedOperatorsAllowed ==
    \A i \in StoreCalls :
        events[i].ev \in QueryMethods =>
            OperatorKeys(events[i].arg.query) \subseteq AllowedOperators(allow_dangerous)

\* C2 (as claimed): a query with a dangerous operator key anywhere in it
\* and no unknown operator key is rejected by validate_query exactly when
\* allow_dangerous is false.
C2_DangerousRejectedIffSafeMode ==
    ( /\ op = "validate_query"
      /\ OperatorKeys(args.query) \cap DANGEROUS_OPERATORS # {}
      /\ OperatorKeys(args.query) \subseteq SAFE_QUERY_OPERATORS \cup DANGEROUS_OPERATORS )
    => (result.kind = "raise" <=> ~args.allow_dangerous)

\* C3 (as claimed): a query with an operator key outside both lists, at any
\* nesting level, is rejected by validate_query in both modes.
C3_UnknownOperatorRejected ==
    ( /\ op = "validate_query"
      /\ ~(OperatorKeys(args.query) \subseteq SAFE_QUERY_OPERATORS \cup DANGEROUS_OPERATORS) )
    => result.kind = "raise"

\* C4: with dangerous mode off, insert_document, update_document,
\* delete_document and create_index raise PermissionError for every input and
\* make no validator, sanitizer or store call.
C4_WritesDeniedBeforeAnyCall ==
    (op \in WriteOps /\ ~allow_dangerous)
    => /\ result.kind = "raise"
       /\ result.exc = "PermissionError"
       /\ events = <<>>

C4_Witness ==
    /\ op = "update_document"
    /\ ~allow_dangerous
    /\ args.query = Q_age
    /\ result.exc = "PermissionError"

\* What validation and sanitization say of the structured inputs of the call.
InputsAccepted ==
    CASE op \in {"find_documents", "find_one_document", "count_documents"} ->
            LET q == IF isinstance(args.query, "none") THEN EmptyDict ELSE args.query
            IN  validate_query(q, allow_dangerous).ok /\ sanitize_query(q).ok
      [] op = "delete_document" ->
            validate_query(args.query, allow_dangerous).ok /\ sanitize_query(args.query).ok
      [] op = "update_document" ->
            /\ validate_query(args.query, allow_dangerous).ok
            /\ sanitize_query(args.query).ok
            /\ sanitize_document(args.update).ok
      [] op = "insert_document" -> sanitize_document(args.document).ok
      [] op = "aggregate_pipeline" ->
            /\ validate_pipeline(args.pipeline, allow_dangerous, args.max_stages).ok
            /\ \A i \in 1..Len(args.pipeline) : sanitize_query(args.pipeline[i]).ok
      [] OTHER -> TRUE

\* C5: an executor operation calls the store only when validation and
\* sanitization of all its structured inputs succeeded, and then once, as
\* its last call; a failure of any part leaves the store untouched.
C5_StoreOnlyAfterAllChecks ==
    op \in ExecutorOps =>
        /\ StoreCalls # {} => InputsAccepted
        /\ StoreCalls \subseteq {Len(events)}
        /\ \A i \in 1..Len(events) : events[i].target # "store" /\ ~events[i].ok
                                        => StoreCalls = {}

C5_Witness ==
    /\ op = "update_document"
    /\ allow_dangerous
    /\ Len(events) = 3
    /\ events[2].ok
    /\ events[3].ev = "sanitize_document"
    /\ ~events[3].ok
    /\ result.kind = "raise"

\* A stage that is a mapping with exactly one key.
OneKeyMapping(stage) == isinstance(stage, "dict") /\ Len(stage.v) = 1

\* C6: a pipeline within the length bound whose stages are all one-key
\* mappings is accepted by validate_pipeline exactly when every stage name
\* is a safe stage, or a dangerous stage with allow_dangerous.
C6_StageNamesClassified ==
    ( /\ op = "validate_pipeline"
      /\ Len(args.pipeline) <= args.max_stages
      /\ \A i \in 1..Len(args.pipeline) : OneKeyMapping(args.pipeline[i]) )
    => ( result.kind = "return" <=>
            \A i \in 1..Len(args.pipeline) :
                args.pipeline[i].v[1][1] \in AllowedStages(args.allow_dangerous) )

C6_Witness ==
    /\ op = "validate_pipeline"
    /\ args.pipeline = <<St_match, St_out>>
    /\ ~args.allow_dangerous
    /\ args.max_stages = DefaultMaxStages
    /\ result.kind = "raise"
    /\ result.cause = "dangerous"

\* C7: validate_pipeline rejects every pipeline longer than max_stages and
\* accepts every pipeline of exactly max_stages individually valid stages.
C7_LengthBound ==
    op = "validate_pipeline" =>
        /\ Len(args.pipeline) > args.max_stages => result.kind = "raise"
        /\ ( /\ Len(args.pipeline) = args.max_stages
             /\ \A i \in 1..Len(args.pipeline) :
                    /\ OneKeyMapping(args.pipeline[i])
                    /\ args.pipeline[i].v[1][1] \in AllowedStages(args.allow_dangerous) )
           => result.kind = "return"

C7_Witness ==
    /\ op = "validate_pipeline"
    /\ Len(args.pipeline) = DefaultMaxStages
    /\ args.max_stages = DefaultMaxStages
    /\ result.kind = "return"

\* C8: validate_pipeline rejects, in both modes, every pipeline with a
\* stage that is not a mapping with exactly one key.
C8_MalformedStageRejected ==
    ( /\ op = "validate_pipeline"
      /\ \E i \in 1..Len(args.pipeline) : ~OneKeyMapping(args.pipeline[i]) )
    => result.kind = "raise"

C8_Witness ==
    /\ op = "validate_pipeline"
    /\ args.pipeline = <<St_match, St_two>>
    /\ args.allow_dangerous
    /\ args.max_stages = DefaultMaxStages
    /\ result.kind = "raise"
    /\ result.cause = "not_one_key"

\* A stage with the key "$limit".
IsLimitStage(stage) == isinstance(stage, "dict") /\ HasKey(stage, S_limit)

\* C9 (as claimed): aggregate_pipeline called with bound L dispatches the
\* sanitized stages followed by exactly one {$limit: L} when the pipeline
\* has no $limit stage, and the sanitized stages alone when it has one.
C9_LimitAppended ==
    (op = "aggregate_pipeline" /\ StoreCalls # {}) =>
        LET sanitized == [i \in 1..Len(args.pipeline) |->
                            sanitize_query(args.pipeline[i]).val]
            dispatched == events[Len(events)].arg.pipeline
        IN  IF \E i \in 1..Len(args.pipeline) : IsLimitStage(args.pipeline[i])
            THEN dispatched = sanitized
            ELSE dispatched =
                    Append(sanitized, Dict(<< <<S_limit, Num(args.limit)>> >>))

\* C10 (as claimed): every pipeline aggregate_pipeline dispatches holds at
\* least one $limit stage, whatever the limit argument.
C10_DispatchedPipelineBounded ==
    (op = "aggregate_pipeline" /\ StoreCalls # {}) =>
        LET dispatched == events[Len(events)].arg.pipeline
        IN  \E i \in 1..Len(dispatched) : IsLimitStage(dispatched[i])

RECURSIVE Depth(_)
\* The nesting depth of a structure: 0 for a scalar, 1 for an empty
\* container, 1 + the largest depth of its elements otherwise.
Depth(x) ==
    IF isinstance(x, "dict") \/ isinstance(x, "list")
    THEN LET elems == {IF isinstance(x, "dict") THEN x.v[i][2] ELSE x.v[i] :
                          i \in 1..Len(x.v)}
             depths == {Depth(e) : e \in elems}
         IN  IF depths = {} THEN 1
             ELSE 1 + (CHOOSE d \in depths : \A e \in depths : e <= d)
    ELSE 0

\* C11 (as claimed): _check_depth(node, 0) succeeds exactly when the nesting
\* depth of node is at most 10, whatever its levels and its innermost
\* container are.
C11_DepthBoundExact ==
    op = "_check_depth" =>
        (result.kind = "return" <=> Depth(args.obj) <= MAX_QUERY_DEPTH)

\* C12: sanitize_string is idempotent: on every string it accepts, applying
\* it to its own result succeeds and gives that result again.
C12_SanitizeStringIdempotent ==
    (op = "sanitize_string" /\ result.kind = "return") =>
        LET again == sanitize_string(result.value)
        IN  again.ok /\ again.val = result.value.v

C12_Witness ==
    /\ op = "sanitize_string"
    /\ args.value = Str(<<0, 32, 97>>)
    /\ result.kind = "return"
    /\ result.value = Str(<<97>>)

\* The characters the claim lists: 0x00-0x08, 0x0B, 0x0C, 0x0E-0x1F, 0x7F.
ListedControl == (0..8) \cup {11, 12} \cup (14..31) \cup {127}

\* r is s without its leading and trailing whitespace.
Trimmed(s, r) ==
    /\ Len(r) <= Len(s)
    /\ \E lead \in 0..(Len(s) - Len(r)) :
        /\ r = SubSeq(s, lead + 1, lead + Len(r))
        /\ \A i \in 1..lead : IsSpace(s[i])
        /\ \A i \in (lead + Len(r) + 1)..Len(s) : IsSpace(s[i])
    /\ r # <<>> => ~IsSpace(r[1]) /\ ~IsSpace(r[Len(r)])

\* C13: sanitize_string fails exactly when its argument is not a string or
\* has more than 1000 characters as given; otherwise it returns the
\* argument without the listed control characters and then without leading
\* and trailing whitespace, every other character kept in order.
C13_SanitizeStringContract ==
    op = "sanitize_string" =>
        /\ result.kind = "raise" <=>
              (~isinstance(args.value, "str") \/ Len(args.value.v) > 1000)
        /\ result.kind = "return" =>
              /\ \A i \in 1..Len(result.value.v) : result.value.v[i] \notin ListedControl
              /\ Trimmed(SelectSeq(args.value.v, LAMBDA c : c \notin ListedControl),
                         result.value.v)

C13_Witness ==
    /\ op = "sanitize_string"
    /\ args.value = Str(PaddedString)
    /\ result.kind = "return"
    /\ Len(result.value.v) = MAX_STRING_LENGTH - 2

RECURSIVE AllStrings(_)
\* Every string of a value: its mapping keys and its string values, at
\* every nesting level, inside sequences of sequences too.
AllStrings(x) ==
    IF isinstance(x, "str") THEN {x.v}
    ELSE IF isinstance(x, "dict")
         THEN UNION {{x.v[i][1]} \cup AllStrings(x.v[i][2]) : i \in 1..Len(x.v)}
    ELSE IF isinstance(x, "list")
         THEN UNION {AllStrings(x.v[i]) : i \in 1..Len(x.v)}
    ELSE {}

\* The only argument of a direct sanitizer call.
SanitizerArg == IF op = "sanitize_query" THEN args.query ELSE args.document

\* C14 (as claimed): every string key and string value of the result of
\* sanitize_query / sanitize_document, at every nesting level, is its own
\* sanitize_string image, and a string over the length limit anywhere in
\* the argument makes the call fail.
C14_EveryStringCleaned ==
    op \in {"sanitize_query", "sanitize_document"} =>
        /\ result.kind = "return" =>
              \A s \in AllStrings(result.value) :
                  sanitize_string(Str(s)).ok /\ sanitize_string(Str(s)).val = s
        /\ (\E s \in AllStrings(SanitizerArg) : Len(s) > MAX_STRING_LENGTH)
              => result.kind = "raise"

RECURSIVE SameShape(_, _)
\* y is x up to edits of its string keys and string values: the same
\* containers with the same number of elements in the same order, the same
\* scalars.
SameShape(x, y) ==
    IF isinstance(x, "dict")
    THEN /\ isinstance(y, "dict")
         /\ Len(y.v) = Len(x.v)
         /\ \A i \in 1..Len(x.v) : SameShape(x.v[i][2], y.v[i][2])
    ELSE IF isinstance(x, "list")
         THEN /\ isinstance(y, "list")
              /\ Len(y.v) = Len(x.v)
              /\ \A i \in 1..Len(x.v) : SameShape(x.v[i], y.v[i])
    ELSE IF isinstance(x, "str") THEN isinstance(y, "str")
    ELSE y = x

\* C15 (as claimed): the result of sanitize_query / sanitize_document has
\* the shape of its argument: no key dropped, merged or reordered, no
\* element added or removed, every other scalar unchanged.
C15_ShapePreserved ==
    (op \in {"sanitize_query", "sanitize_document"} /\ result.kind = "return")
        => SameShape(SanitizerArg, result.value)

\* A string with nothing for sanitize_string to edit.
CleanString(s) ==
    /\ Len(s) <= 1000
    /\ \A i \in 1..Len(s) : s[i] \notin ListedControl
    /\ s # <<>> => ~IsSpace(s[1]) /\ ~IsSpace(s[Len(s)])

\* A query within the depth bound whose strings are all clean.
CleanQuery(q) == Depth(q) <= 10 /\ \A s \in AllStrings(q) : CleanString(s)

\* C16: sanitize_query returns a clean query within the depth bound as it
\* is, and the document operations hand such a query, once validated, to
\* the store unchanged.
C16_CleanQueryUnchanged ==
    /\ (op = "sanitize_query" /\ CleanQuery(args.query))
          => result = Return(args.query)
    /\ \A i \in StoreCalls :
          ( /\ events[i].ev \in QueryMethods
            /\ CleanQuery(QueryOrEmpty(args.query)) )
          => events[i].arg.query = QueryOrEmpty(args.query)

C16_Witness ==
    /\ op = "find_documents"
    /\ ~allow_dangerous
    /\ args.query = Q_age
    /\ StoreCalls = {3}
    /\ events[3].arg.query = Q_age

\* C17: a sanitizer call leaves its argument as it was given, whether it
\* returns or raises, and a call that raises hands nothing back: no value
\* to the caller, no store call in a handler.
C17_ArgumentUntouched ==
    /\ \A i \in 1..Len(events) :
          events[i].target = "sanitizer" =>
              /\ events[i].after = events[i].arg
              /\ ~events[i].ok =>
                    /\ result.kind = "raise"
                    /\ result.value = None
                    /\ StoreCalls = {}
    /\ op \in {"sanitize_query", "sanitize_document"} =>
          /\ Len(events) = 1
          /\ events[1].arg = SanitizerArg

C17_Witness ==
    /\ op = "sanitize_document"
    /\ args.document = Q_dirty_then_long
    /\ result.kind = "raise"
    /\ result.cause = "string_too_long"
    /\ events[1].after = Q_dirty_then_long

\* C18 (as claimed): every rejection by validate_query or validate_pipeline
\* raises an error that names the offending operator or stage and tells
\* where it is.
C18_RejectionNamesAndLocates ==
    \A i \in 1..Len(events) :
        (events[i].target = "validator" /\ ~events[i].ok) =>
            events[i].named # <<>> /\ events[i].index >= 0

\* The calls that check an input of an executor operation.
CheckCalls == {i \in 1..Len(events) : events[i].target \in {"validator", "sanitizer"}}

\* C19 (as claimed): in every executor operation a validation or
\* sanitization failure reaches the caller as the ValueError raised, and a
\* permission denial as the PermissionError raised; neither leaves the
\* operation as the RuntimeError that store failures are reported with.
C19_FailureKindKept ==
    op \in ExecutorOps \cup WriteOps =>
        /\ (\E i \in CheckCalls : ~events[i].ok) =>
              result.kind = "raise" /\ result.exc = "ValueError"
        /\ (op \in WriteOps /\ ~allow_dangerous) =>
              result.kind = "raise" /\ result.exc = "PermissionError"

\* C20 (as claimed): whenever a store call of a document, aggregation,
\* collection or database operation fails, the operation raises a
\* RuntimeError that carries the store's message.
C20_StoreFailureReported ==
    \A i \in StoreCalls :
        ~events[i].ok =>
            /\ result.kind = "raise"
            /\ result.exc = "RuntimeError"
            /\ result.cause = "OperationFailure"

\* e is the document d with its top-level _id, when it is an ObjectId, in
\* string form (24 hexadecimal digits) and every other field as it is.
TopLevelIdOnly(d, e) ==
    /\ isinstance(e, "dict")
    /\ Len(e.v) = Len(d.v)
    /\ \A j \in 1..Len(d.v) :
          IF d.v[j][1] = S_id /\ isinstance(d.v[j][2], "oid")
          THEN /\ e.v[j][1] = S_id
               /\ isinstance(e.v[j][2], "str")
               /\ Len(e.v[j][2].v) = 24
               /\ \A k \in 1..24 : e.v[j][2].v[k] \in (48..57) \cup (97..102)
          ELSE e.v[j] = d.v[j]

\* The documents a find or aggregate call returned to its caller.
ReturnedDocuments ==
    CASE op = "find_documents" -> result.value.documents
      [] op = "aggregate_pipeline" -> result.value.results
      [] op = "find_one_document" ->
            IF result.value = None THEN <<>> ELSE <<result.value>>

\* C21: find_documents, find_one_document and aggregate_pipeline return the
\* store's documents with the top-level _id in string form when the store
\* gave an ObjectId, and every other field, ObjectIds in sub-documents and
\* arrays included, as the store gave it.
C21_TopLevelIdNormalized ==
    ( /\ op \in {"find_documents", "find_one_document", "aggregate_pipeline"}
      /\ result.kind = "return" ) =>
        LET given == events[Len(events)].returned
        IN  /\ Len(ReturnedDocuments) = Len(given)
            /\ \A i \in 1..Len(given) : TopLevelIdOnly(given[i], ReturnedDocuments[i])

C21_Witness ==
    /\ op = "aggregate_pipeline"
    /\ result.kind = "return"
    /\ events[Len(events)].returned = <<StoreDoc>>
    /\ result.value.results[1].v[1] = <<S_id, Str(OidStr(1))>>
    /\ result.value.results[1].v[3] = <<S_a, Dict(<< <<S_id, Oid(3)>> >>)>>

\* C22: find_documents and aggregate_pipeline return count = the number of
\* documents returned, and hasMore = TRUE exactly when that number is the
\* limit the caller asked for, whatever the limit and whether or not the
\* pipeline has its own $limit stage.
C22_CountAndHasMore ==
    (op \in {"find_documents", "aggregate_pipeline"} /\ result.kind = "return") =>
        /\ Len(ReturnedDocuments) = Len(events[Len(events)].returned)
        /\ result.value.count = Len(ReturnedDocuments)
        /\ result.value.hasMore = (Len(ReturnedDocuments) = args.limit)

C22_Witness ==
    /\ op = "find_documents"
    /\ args.limit = 0
    /\ result.kind = "return"
    /\ result.value.count = 0
    /\ result.value.hasMore

\* The 13 tool names of the claim, each with its handler operation.
ToolOperations ==
    [ list_databases |-> "database.list_databases",
      list_collections |-> "collection.list_collections",
      find_documents |-> "document.find_documents",
      find_one_document |-> "document.find_one_document",
      count_documents |-> "document.count_documents",
      aggregate_pipeline |-> "aggregation.aggregate_pipeline",
      insert_document |-> "document.insert_document",
      update_document |-> "document.update_document",
      delete_document |-> "document.delete_document",
      create_index |-> "aggregation.create_index",
      describe_collection |-> "collection.describe_collection",
      get_collection_stats |-> "collection.get_collection_stats",
      list_indexes |-> "collection.list_indexes" ]

\* C23 (as claimed): every entry point, once initialized and given the
\* parameters of the tool, calls for each of the 13 tool names exactly the
\* handler operation of that name, and answers any other name with an error
\* and no handler call.
C23_ToolsDispatched ==
    ( /\ op = "tool_call"
      /\ args.initialized /\ args.database /\ args.collection ) =>
        IF args.name \in DOMAIN ToolOperations
        THEN result.kind = "return" /\ events = <<HandlerCall(ToolOperations[args.name])>>
        ELSE result.kind = "raise" /\ events = <<>>

\* The count or id each write-class operation reports.
WriteResultField ==
    [ insert_document |-> "insertedId",
      update_document |-> "modifiedCount",
      delete_document |-> "deletedCount",
      create_index |-> "indexName" ]

\* C24 (as claimed): a write-class operation that succeeds in dangerous mode
\* returns a result with an acknowledged field and with its own count or id.
C24_WriteResultAcknowledged ==
    (op \in WriteOps /\ allow_dangerous /\ result.kind = "return") =>
        /\ "acknowledged" \in DOMAIN result.value
        /\ WriteResultField[op] \in DOMAIN result.value

\* What an operation of DocumentHandler or AggregationHandler does with
\* arguments a, flag allow and store response resp.
OutcomeOf(o, a, allow, resp) ==
    CASE o = "find_documents" ->
            find_documents(allow, a.query, a.projection, a.sort, a.limit, a.skip, resp)
      [] o = "find_one_document" -> find_one_document(allow, a.query, a.projection, resp)
      [] o = "count_documents" -> count_documents(allow, a.query, resp)
      [] o = "insert_document" -> insert_document(allow, a.document, resp)
      [] o = "update_document" -> update_document(allow, a.query, a.update, a.upsert, resp)
      [] o = "delete_document" -> delete_document(allow, a.query, resp)
      [] o = "aggregate_pipeline" ->
            aggregate_pipeline(allow, a.pipeline, a.limit, a.max_stages, resp)
      [] o = "explain_aggregation" -> explain_aggregation(allow, a.pipeline, resp)
      [] o = "create_index" -> create_index(allow, a.keys, [unique |-> a.unique], resp)

C26_DispatchedWithinMaxStages ==
    (op \in {"aggregate_pipeline", "explain_aggregation"} /\ StoreCalls # {}) =>
        LET dispatched == events[Len(events)].arg.pipeline
            max_stages == IF op = "aggregate_pipeline" THEN args.max_stages
                          ELSE DefaultMaxStages
        IN  /\ Len(dispatched) <= max_stages
            /\ \A i \in 1..Len(dispatched) : OneKeyMapping(dispatched[i])

\* C27 (as claimed): in safe mode no pipeline aggregate_pipeline hands to
\* the store holds a key of DANGEROUS_OPERATORS or DANGEROUS_STAGES, as a
\* stage name or at any nesting level of a stage body.
C27_NoDangerousKeyDispatched ==
    (op = "aggregate_pipeline" /\ ~allow_dangerous /\ StoreCalls # {}) =>
        LET dispatched == events[Len(events)].arg.pipeline
        IN  \A i \in 1..Len(dispatched) :
                AllKeys(dispatched[i]) \cap (DANGEROUS_OPERATORS \cup DANGEROUS_STAGES) = {}

\* C28 (as claimed): whatever the interleaving of the tool calls and the
\* outcome of the connection, a tool body calls a handler only after setup
\* has completed, no tool call finds server_instance set with its handlers
\* still None, and setup completes at most once.
C28_HandlerOnlyAfterSetup ==
    /\ \A t \in Tasks : task[t] = "in_handler" => (db_handler # "None" /\ setups = 1)
    /\ \A t \in Tasks : task[t] # "AttributeError"
    /\ setups <= 1

\* The id a line asks its answer to carry: that of the request, null for
\* a line that holds no request.
IdOf(line) == IF line.json = "object" THEN line.id ELSE None

\* C29 (as claimed): every line read has exactly one message written for
\* it, carrying the id of the request on that line (null when the line holds
\* none), and no line makes the loop end: it ends on end of input or
\* interrupt only.
C29_OneAnswerPerLine ==
    /\ Len(stdout) = Len(stdin_read)
    /\ \A i \in 1..Len(stdout) : stdout[i].id = IdOf(stdin_read[i])
    /\ loop \in {"running", "eof", "KeyboardInterrupt"}

===========================================================================
